---- MODULE Spec2Model ----
(***************************************************************************)
(* Movie catalogue backend: the movies router (src/routes/movies.js), the  *)
(* movies controller (src/README.md, lines 336-610), the session           *)
(* middleware (src/unnamed/part_000), the auth router                      *)
(* (src/unnamed/part_001) and the likes / watchlist router                 *)
(* (src/unnamed/part_002).                                                 *)
(*                                                                         *)
(* JavaScript values are tagged records: the tag k is "undef", "null",     *)
(* "str" (v a sequence of one-character strings), "num" (v + h/2, so that  *)
(* a non-integer number exists), "nan", "arr" (v a sequence of values) or  *)
(* "date" (v a clock reading).                                             *)
(***************************************************************************)
EXTENDS Integers, Sequences, FiniteSets, TLC

\* ------------------------------------------------------------------ bounds
MaxMovies == 2      \* movies ever inserted
MaxTime   == 1      \* readings of the clock are 0..MaxTime
MaxRecs   == 3      \* relation records in the two collections together
MaxUsers  == 4      \* user documents in the users collection

\* ------------------------------------------------- constants of the program
RATING_MIN == 0
RATING_MAX == 10
GENRES_MAX == 6
YEAR_MIN_WRITE == 1800
YEAR_MIN_CTL == 1888
YEAR_MIN_LIST == 1800
CurrentYear == 2026
REG_USER_MIN == 3
REG_PASS_MIN == 6

\* --------------------------------------------------------- JavaScript values
Undef == [k |-> "undef"]
Null == [k |-> "null"]
NaN == [k |-> "nan"]
Str(s) == [k |-> "str", v |-> s]
Num(n) == [k |-> "num", v |-> n, h |-> 0]
Half(n) == [k |-> "num", v |-> n, h |-> 1]
Arr(a) == [k |-> "arr", v |-> a]
Date(t) == [k |-> "date", v |-> t]

\* twice the value of a number, an integer
Twice(x) == 2 * x.v + x.h

Digits == <<"0", "1", "2", "3", "4", "5", "6", "7", "8", "9">>

IsDigit(c) == \E i \in 1..10 : Digits[i] = c

DigitVal(c) == (CHOOSE i \in 1..10 : Digits[i] = c) - 1

\* typeof x
TypeOf(x) ==
  CASE x.k = "undef" -> "undefined"
    [] x.k = "str" -> "string"
    [] x.k \in {"num", "nan"} -> "number"
    [] OTHER -> "object"

\* Boolean(x), the truthiness that !x, x || y and filter(Boolean) use
Truthy(x) ==
  CASE x.k \in {"undef", "null", "nan"} -> FALSE
    [] x.k = "str" -> Len(x.v) > 0
    [] x.k = "num" -> Twice(x) # 0
    [] OTHER -> TRUE

RECURSIVE TrimStart(_)
TrimStart(s) ==
  IF s # <<>> /\ Head(s) = " " THEN TrimStart(Tail(s)) ELSE s

RECURSIVE TrimEnd(_)
TrimEnd(s) ==
  IF s # <<>> /\ s[Len(s)] = " " THEN TrimEnd(SubSeq(s, 1, Len(s) - 1)) ELSE s

\* String.prototype.trim on the characters of a string
Trim(s) == TrimEnd(TrimStart(s))

RECURSIVE NatChars(_)
NatChars(n) ==
  IF n < 10 THEN <<Digits[n + 1]>>
  ELSE NatChars(n \div 10) \o <<Digits[(n % 10) + 1]>>

\* String(x), the characters
JsString(x) ==
  CASE x.k = "str" -> x.v
    [] x.k = "undef" -> <<"u", "n", "d", "e", "f", "i", "n", "e", "d">>
    [] x.k = "null" -> <<"n", "u", "l", "l">>
    [] x.k = "nan" -> <<"N", "a", "N">>
    [] x.k = "num" ->
         (IF x.v < 0 THEN <<"-">> \o NatChars(-x.v) ELSE NatChars(x.v))
         \o (IF x.h = 1 THEN <<".", "5">> ELSE <<>>)
    [] OTHER -> <<"o", "b", "j">>

RECURSIVE ParseNat(_, _)
ParseNat(s, acc) ==
  IF s = <<>> THEN acc ELSE ParseNat(Tail(s), 10 * acc + DigitVal(Head(s)))

\* Number(x) of the characters of an unsigned decimal numeral
NumberOfDigits(t) ==
  IF t # <<>> /\ \A i \in 1..Len(t) : IsDigit(t[i]) THEN Num(ParseNat(t, 0))
  ELSE IF Len(t) >= 3 /\ t[Len(t)] = "5" /\ t[Len(t) - 1] = "."
          /\ \A i \in 1..(Len(t) - 2) : IsDigit(t[i])
       THEN Half(ParseNat(SubSeq(t, 1, Len(t) - 2), 0))
  ELSE NaN

\* -x
Negated(x) ==
  CASE x.k = "num" /\ x.h = 0 -> Num(0 - x.v)
    [] x.k = "num" /\ x.h = 1 -> Half(0 - x.v - 1)
    [] OTHER -> x

\* Number(x) for the values a JSON body or a query string can carry
Number(x) ==
  CASE x.k \in {"num", "nan"} -> x
    [] x.k = "null" -> Num(0)
    [] x.k = "str" ->
         LET t == Trim(x.v) IN
         IF t = <<>> THEN Num(0)
         ELSE IF Head(t) = "-" THEN Negated(NumberOfDigits(Tail(t)))
         ELSE NumberOfDigits(t)
    [] OTHER -> NaN

\* Number.isInteger(x)
IsInteger(x) == x.k = "num" /\ x.h = 0

\* x === ''
IsEmptyStr(x) == x = Str(<<>>)

\* a || b || c
Or3(a, b, c) == IF Truthy(a) THEN a ELSE IF Truthy(b) THEN b ELSE c

\* ------------------------------------------------------------------- state
VARIABLES
  users,    \* the users collection: _id -> document
  session,  \* session store: session handle -> identity or NoUser
  movies,   \* the movies collection: _id -> document
  nextId,   \* the next ObjectId the store assigns to a movie
  now,      \* the last reading of the clock
  rel,      \* the likes and watchlist collections: name -> sequence of records
  pc,       \* per request slot: where its handler stands between awaits
  loc,      \* per request slot: the handler's locals
  resp      \* the request handled by the last step and the response it sent

vars == <<users, session, movies, nextId, now, rel, pc, loc, resp>>

\* --------------------------------------------- validation (routes/movies.js)
Take(s, n) == IF Len(s) <= n THEN s ELSE SubSeq(s, 1, n)

RECURSIVE FilterTruthy(_)
FilterTruthy(s) ==
  IF s = <<>> THEN <<>>
  ELSE IF Truthy(Head(s)) THEN <<Head(s)>> \o FilterTruthy(Tail(s))
  ELSE FilterTruthy(Tail(s))

\* normalizeGenres(genre, genres): a sequence of string values
normalizeGenres(genre, genres) ==
  LET arr0 == IF genres.k = "arr" THEN genres.v ELSE <<>>
      arr1 == IF Len(arr0) = 0 /\ genre.k \notin {"undef", "null"} /\ ~IsEmptyStr(genre)
              THEN LET s == Trim(JsString(genre)) IN
                   IF s # <<>> THEN <<Str(s)>> ELSE arr0
              ELSE arr0
      arr2 == FilterTruthy([i \in 1..Len(arr1) |-> Str(Trim(JsString(arr1[i])))])
  IN Take(arr2, GENRES_MAX)

\* a validateRating that lets every number through
validateRatingAny(value) ==
  IF value.k \in {"undef", "null"} \/ IsEmptyStr(value) THEN Null ELSE Number(value)

\* validateRating(value): the number, or null
validateRating(value) ==
  IF value.k \in {"undef", "null"} \/ IsEmptyStr(value) THEN Null
  ELSE LET n == Number(value) IN
       IF n.k = "nan" \/ Twice(n) < 2 * RATING_MIN \/ Twice(n) > 2 * RATING_MAX
       THEN Null ELSE n

\* year === undefined || year === null || year === ''
YearMissing(year) == year.k \in {"undef", "null"} \/ IsEmptyStr(year)

\* the patch both validators return once no check has failed
PatchOf(body, gs, r) ==
  [ title |-> IF body.title # Undef THEN Str(Trim(JsString(body.title))) ELSE Undef,
    year |-> IF ~YearMissing(body.year) THEN Number(body.year) ELSE Undef,
    genres |-> IF Len(gs) > 0 THEN Arr(gs) ELSE Undef,
    rating |-> r,
    director |-> IF body.director # Undef
                 THEN (IF Truthy(body.director) THEN Str(Trim(JsString(body.director))) ELSE Null)
                 ELSE Undef,
    poster |-> Or3(body.poster, body.posterUrl, Undef),
    posterUrl |-> Or3(body.poster, body.posterUrl, Undef),
    description |-> IF body.description # Undef
                    THEN (IF Truthy(body.description) THEN Str(Trim(JsString(body.description))) ELSE Null)
                    ELSE Undef ]

\* the rating of the router's patch, line 73: r is never undefined
RouterRating(r) == IF r # Undef THEN r ELSE Undef

\* validateFilmBody(body, isUpdate) of the router: error is "" when valid
validateFilmBody(body, isUpdate) ==
  LET title == body.title
      year == body.year
      gs == normalizeGenres(body.genre, body.genres)
      r == validateRating(body.rating)
      y == Number(year)
      none == [title |-> Undef, year |-> Undef, genres |-> Undef, rating |-> Undef,
               director |-> Undef, poster |-> Undef, posterUrl |-> Undef,
               description |-> Undef]
      fail(msg) == [error |-> msg, data |-> none]
  IN
  IF ~isUpdate /\ (~Truthy(title) \/ TypeOf(title) # "string" \/ Trim(title.v) = <<>>)
    THEN fail("Title is required")
  ELSE IF title # Undef /\ TypeOf(title) = "string" /\ Trim(title.v) = <<>>
    THEN fail("Title cannot be empty")
  ELSE IF ~isUpdate /\ YearMissing(year)
    THEN fail("Year is required")
  ELSE IF ~YearMissing(year)
          /\ (~IsInteger(y) \/ Twice(y) < 2 * YEAR_MIN_WRITE \/ Twice(y) > 2 * (CurrentYear + 1))
    THEN fail("Year must be an integer between 1800 and next year")
  ELSE IF Len(gs) > GENRES_MAX
    THEN fail("At most 6 genres allowed")
  ELSE IF \E i \in 1..Len(gs) : ~Truthy(gs[i]) \/ TypeOf(gs[i]) # "string"
    THEN fail("Each genre must be a non-empty string")
  ELSE IF body.rating.k \notin {"undef", "null"} /\ ~IsEmptyStr(body.rating) /\ r = Null
    THEN fail("Rating must be a number between 0 and 10")
  ELSE [error |-> "", data |-> [PatchOf(body, gs, r) EXCEPT !.rating = RouterRating(r)]]

\* ------------------------------------------------- validation (controller)
\* data.rating of the controller's validator, src/README.md line 414
CtlRating(rating) ==
  IF rating.k \notin {"undef", "null"} /\ ~IsEmptyStr(rating) THEN Number(rating) ELSE Undef

\* validateFilmBody(body, requireAll) of the controller: { errors, data }
ctlValidateFilmBody(body, requireAll) ==
  LET title == body.title
      year == body.year
      y == Number(year)
      gs == normalizeGenres(body.genre, body.genres)
      e1 == IF (requireAll \/ title # Undef)
               /\ (~Truthy(title) \/ TypeOf(title) # "string" \/ Trim(title.v) = <<>>)
            THEN <<"title must be a non-empty string">> ELSE <<>>
      e2 == IF (requireAll \/ year # Undef)
               /\ (~IsInteger(y) \/ Twice(y) < 2 * YEAR_MIN_CTL \/ Twice(y) > 2 * (CurrentYear + 1))
            THEN <<"year must be between 1888 and next year">> ELSE <<>>
      setg == requireAll \/ body.genre # Undef \/ body.genres # Undef
      e3 == IF setg /\ (Len(gs) < 1 \/ Len(gs) > GENRES_MAX)
            THEN <<"genres must contain 1-6 items">> ELSE <<>>
      e4 == IF setg /\ \E i \in 1..Len(gs) : ~Truthy(gs[i]) \/ TypeOf(gs[i]) # "string"
            THEN <<"each genre must be a non-empty string">> ELSE <<>>
      e5 == IF body.rating.k \notin {"undef", "null"} /\ ~IsEmptyStr(body.rating)
               /\ validateRating(body.rating) = Null
            THEN <<"rating must be between 0 and 10">> ELSE <<>>
  IN [errors |-> e1 \o e2 \o e3 \o e4 \o e5,
      data |-> [PatchOf(body, gs, Undef) EXCEPT !.rating = CtlRating(body.rating)]]

\* ------------------------------------------------------ ids and identities
Sessions == {"s1", "s2"}
Slots == {"r1", "r2"}
Kinds == {"likes", "watchlist"}

\* a string offered as an ObjectId: n in lower-case hex, the same in upper
\* case, or something that is no ObjectId
Hex(n) == [ok |-> TRUE, n |-> n, uc |-> FALSE]
HexUpper(n) == [ok |-> TRUE, n |-> n, uc |-> TRUE]
BadId == [ok |-> FALSE, n |-> 0, uc |-> FALSE]

\* ObjectId.isValid(s), new ObjectId(s), oid.toString()
ObjectIdIsValid(s) == s.ok
ObjectId(s) == s.n
IdToString(n) == Hex(n)

\* req.session.user when nobody is logged in
NoUser == [id |-> 0, username |-> <<>>, role |-> "none"]

\* bcrypt.hash(p, 10) and bcrypt.compare(p, h)
BcryptHash(p) == [bcrypt |-> p]
BcryptCompare(p, h) == h = BcryptHash(p)

AdminName == <<"a", "d", "m", "i", "n">>
AdminPass == <<"a", "d", "m", "i", "n", "1", "2", "3">>
BobName == <<"b", "o", "b">>
BobPass == <<"s", "e", "c", "r", "e", "t">>

\* the user the seed script inserts
SeedUser == [username |-> AdminName, passwordHash |-> BcryptHash(AdminPass), role |-> "admin"]

\* the user a registration of bob inserts
BobUser == [username |-> BobName, passwordHash |-> BcryptHash(BobPass), role |-> "user"]

NoBody == [none |-> TRUE]
NoLoc == [op |-> "-"]

\* what a step leaves for the observer: the route, the session, the request's
\* argument where the step records it, and the status and body of the answer
Respond(op, s, arg, status, out) ==
  [op |-> op, s |-> s, arg |-> arg, status |-> status, out |-> out]

\* requireAuth without its test: every request is let through
requireAuthAlways(s) == TRUE

\* requireAuth (middleware/auth): next() iff the session carries a user
requireAuth(s) == session[s] # NoUser

Unauthorized == [message |-> "Unauthorized"]

\* ------------------------------------------------------------ auth router
\* the users whose username is u, in _id order: findOne returns the first
UsersNamed(u) == {i \in DOMAIN users : users[i].username = u}

FindUser(u) == users[CHOOSE i \in UsersNamed(u) : \A j \in UsersNamed(u) : i <= j]

\* POST /auth/login
Login(s, username, password) ==
  LET bad == ~Truthy(username) \/ ~Truthy(password)
             \/ TypeOf(username) # "string" \/ TypeOf(password) # "string"
      u == Trim(username.v)
      req == [username |-> username, password |-> password]
      inv == [message |-> "Invalid credentials"]
  IN
  /\ IF bad THEN
       /\ resp' = Respond("login", s, req, 400, inv)
       /\ UNCHANGED session
     ELSE IF u = <<>> \/ UsersNamed(u) = {} THEN
       /\ resp' = Respond("login", s, req, 401, inv)
       /\ UNCHANGED session
     ELSE IF ~BcryptCompare(password.v, FindUser(u).passwordHash) THEN
       /\ resp' = Respond("login", s, req, 401, inv)
       /\ UNCHANGED session
     ELSE
       LET i == CHOOSE i \in UsersNamed(u) : \A j \in UsersNamed(u) : i <= j IN
       /\ session' = [session EXCEPT ![s] =
            [id |-> i, username |-> users[i].username,
             role |-> IF users[i].role = "admin" THEN "admin" ELSE "user"]]
       /\ resp' = Respond("login", s, req, 200, [message |-> "ok"])
  /\ UNCHANGED <<users, movies, nextId, now, rel, pc, loc>>

\* a logout that leaves the session as it is
LogoutKeep(s) ==
  /\ resp' = Respond("logout", s, NoBody, 200, [message |-> "ok"])
  /\ UNCHANGED <<users, session, movies, nextId, now, rel, pc, loc>>

\* POST /auth/logout
Logout(s) ==
  /\ session' = [session EXCEPT ![s] = NoUser]
  /\ resp' = Respond("logout", s, NoBody, 200, [message |-> "ok"])
  /\ UNCHANGED <<users, movies, nextId, now, rel, pc, loc>>

\* ----------------------------------------------------------- movies router
General == Str(<<"g", "e", "n", "e", "r", "a", "l">>)

\* x || null
OrNull(x) == IF Truthy(x) THEN x ELSE Null

\* genres && genres[0] ? genres[0] : 'general'
FirstGenre(genres) ==
  IF genres.k = "arr" /\ Len(genres.v) > 0 /\ Truthy(genres.v[1]) THEN genres.v[1] ELSE General

\* movieData of a create, from the validated patch d, stamped at t
movieData(d, t) ==
  [ title |-> d.title,
    year |-> d.year,
    genres |-> IF d.genres.k = "arr" /\ Len(d.genres.v) > 0 THEN d.genres ELSE Arr(<<>>),
    genre |-> FirstGenre(d.genres),
    rating |-> IF d.rating # Undef THEN d.rating ELSE Null,
    director |-> OrNull(d.director),
    poster |-> Or3(d.poster, d.posterUrl, Null),
    posterUrl |-> Or3(d.poster, d.posterUrl, Null),
    description |-> OrNull(d.description),
    createdAt |-> Date(t),
    updatedAt |-> Undef ]

\* a key that updateData does not carry
NotSet == [k |-> "notset"]

UpdFields == {"title", "year", "genres", "genre", "rating", "director", "poster",
              "posterUrl", "description", "updatedAt"}

\* updateData of an update, from the validated patch d, stamped at t
updateData(d, t) ==
  [ updatedAt |-> Date(t),
    title |-> IF d.title # Undef THEN d.title ELSE NotSet,
    year |-> IF d.year # Undef THEN d.year ELSE NotSet,
    genres |-> IF d.genres # Undef THEN d.genres ELSE NotSet,
    genre |-> IF d.genres # Undef THEN FirstGenre(d.genres) ELSE NotSet,
    rating |-> IF d.rating # Undef THEN d.rating ELSE NotSet,
    director |-> IF d.director # Undef THEN d.director ELSE NotSet,
    poster |-> IF d.posterUrl # Undef THEN OrNull(d.posterUrl) ELSE NotSet,
    posterUrl |-> IF d.posterUrl # Undef THEN OrNull(d.posterUrl) ELSE NotSet,
    description |-> IF d.description # Undef THEN d.description ELSE NotSet ]

\* Object.keys(updateData).length
KeyCount(u) == Cardinality({f \in UpdFields : u[f] # NotSet})

\* a $set that stamps createdAt as well
ApplySetStamp(doc, u) ==
  [f \in DOMAIN doc |-> IF f = "createdAt" THEN u["updatedAt"]
                        ELSE IF f \in UpdFields /\ u[f] # NotSet THEN u[f] ELSE doc[f]]

\* { $set: u } applied to a document
ApplySet(doc, u) ==
  [f \in DOMAIN doc |-> IF f \in UpdFields /\ u[f] # NotSet THEN u[f] ELSE doc[f]]

\* parseObjectId: the id, or none after answering 400
InvalidId == [error |-> "Invalid id"]
NotFound == [error |-> "Movie not found"]

\* what a handler of the movies router does with a request: the answer, the
\* collection, the id counter and the clock reading it leaves, and the store
\* operations it issued (none, until Stored says otherwise)
Outcome(status, out, ms, nid, t) ==
  [status |-> status, out |-> out, movies |-> ms, nextId |-> nid, now |-> t, ops |-> <<>>]

\* the outcome of a handler that awaited the store operation op
Stored(op, r) == [r EXCEPT !.ops = <<op>>]

\* an answer given only after the collection was asked for the document
RefuseAsked(status, out) == Stored("findOne", Outcome(status, out, movies, nextId, now))

\* an answer given before the handler reaches the store
Refuse(status, out) == Outcome(status, out, movies, nextId, now)

\* POST /api/movies, with the clock reading t
createOutcome(s, body, t) ==
  LET v == validateFilmBody(body, FALSE)
      doc == movieData(v.data, t) @@ [_id |-> nextId]
  IN
  IF ~requireAuth(s) THEN Refuse(401, Unauthorized)
  ELSE IF v.error # "" THEN Refuse(400, [error |-> v.error])
  ELSE IF ~Truthy(v.data.title) \/ v.data.year = Undef
    THEN Refuse(400, [error |-> "Title and year are required"])
  ELSE Stored("insertOne", Outcome(201, doc, movies @@ (nextId :> doc), nextId + 1, t))

\* PUT /api/movies/:id, with the clock reading t
updateOutcome(s, id, body, t) ==
  LET v == validateFilmBody(body, TRUE)
      u == updateData(v.data, t)
      oid == ObjectId(id)
  IN
  IF ~requireAuth(s) THEN Refuse(401, Unauthorized)
  ELSE IF ~ObjectIdIsValid(id) THEN Refuse(400, InvalidId)
  ELSE IF v.error # "" THEN Refuse(400, [error |-> v.error])
  ELSE IF KeyCount(u) = 1 THEN Outcome(400, [error |-> "No fields to update"], movies, nextId, t)
  ELSE IF oid \notin DOMAIN movies
    THEN Stored("findOneAndUpdate", Outcome(404, NotFound, movies, nextId, t))
  ELSE Stored("findOneAndUpdate",
              Outcome(200, ApplySet(movies[oid], u),
                      [movies EXCEPT ![oid] = ApplySet(movies[oid], u)], nextId, t))

\* DELETE /api/movies/:id
deleteOutcome(s, id) ==
  LET oid == ObjectId(id) IN
  IF ~requireAuth(s) THEN Refuse(401, Unauthorized)
  ELSE IF ~ObjectIdIsValid(id) THEN Refuse(400, InvalidId)
  ELSE IF oid \notin DOMAIN movies
    THEN Stored("deleteOne", Outcome(404, NotFound, movies, nextId, now))
  ELSE Stored("deleteOne",
              Outcome(200, [message |-> "Movie deleted successfully"],
                      [i \in DOMAIN movies \ {oid} |-> movies[i]], nextId, now))

\* a handler's outcome becomes the next state; at most MaxMovies ids are assigned
Apply(op, s, r) ==
  /\ r.nextId <= MaxMovies + 1
  /\ movies' = r.movies
  /\ nextId' = r.nextId
  /\ now' = r.now
  /\ resp' = Respond(op, s, NoBody, r.status, r.out)
  /\ UNCHANGED <<users, session, rel, pc, loc>>

Create(s, body, t) == Apply("create", s, createOutcome(s, body, t))

Update(s, id, body, t) == Apply("update", s, updateOutcome(s, id, body, t))

Delete(s, id) == Apply("delete", s, deleteOutcome(s, id))

\* ------------------------------------------------------- movies controller
\* The controller's handlers (src/README.md, lines 523-608) work on the same
\* collection; the file that mounts them is not part of the sources, so they
\* are modelled from their first line on, with no middleware before them.
ValidationError(errors) == [message |-> "Validation error", errors |-> errors]

\* createMovie, with the clock reading t
ctlCreateOutcome(body, t) ==
  LET v == ctlValidateFilmBody(body, TRUE)
      doc == movieData(v.data, t) @@ [_id |-> nextId]
  IN
  IF Len(v.errors) > 0 THEN Refuse(400, ValidationError(v.errors))
  ELSE Stored("insertOne", Outcome(201, doc, movies @@ (nextId :> doc), nextId + 1, t))

\* the second argument of validateFilmBody in updateMovie, src/README.md line 558
CtlUpdateRequireAll == TRUE

\* updateMovie, with the clock reading t
ctlUpdateOutcome(id, body, t) ==
  LET v == ctlValidateFilmBody(body, CtlUpdateRequireAll)
      u == updateData(v.data, t)
      oid == ObjectId(id)
  IN
  IF ~ObjectIdIsValid(id) THEN Refuse(400, InvalidId)
  ELSE IF Len(v.errors) > 0 THEN Refuse(400, ValidationError(v.errors))
  ELSE IF KeyCount(u) = 1 THEN Outcome(400, [error |-> "No fields to update"], movies, nextId, t)
  ELSE IF oid \notin DOMAIN movies
    THEN Stored("findOneAndUpdate", Outcome(404, NotFound, movies, nextId, t))
  ELSE Stored("findOneAndUpdate",
              Outcome(200, ApplySet(movies[oid], u),
                      [movies EXCEPT ![oid] = ApplySet(movies[oid], u)], nextId, t))

\* deleteMovie
ctlDeleteOutcome(id) ==
  LET oid == ObjectId(id) IN
  IF ~ObjectIdIsValid(id) THEN Refuse(400, InvalidId)
  ELSE IF oid \notin DOMAIN movies
    THEN Stored("deleteOne", Outcome(404, NotFound, movies, nextId, now))
  ELSE Stored("deleteOne",
              Outcome(200, [message |-> "Movie deleted successfully"],
                      [i \in DOMAIN movies \ {oid} |-> movies[i]], nextId, now))

CtlCreate(body, t) == Apply("ctl:create", "-", ctlCreateOutcome(body, t))

CtlUpdate(id, body, t) == Apply("ctl:update", "-", ctlUpdateOutcome(id, body, t))

CtlDelete(id) == Apply("ctl:delete", "-", ctlDeleteOutcome(id))

\* ------------------------------------------------- likes / watchlist router
\* A relation record carries userId and movieId; createdAt, which no route
\* reads back, is left out.

\* a findOne that never finds a record
FindOneNever(coll, userId, movieId) == FALSE

\* collection.findOne({ userId, movieId }) finds a record
FindOne(coll, userId, movieId) ==
  \E i \in 1..Len(coll) : coll[i].userId = userId /\ coll[i].movieId = movieId

\* collection.insertOne(rec)
InsertOne(coll, rec) == Append(coll, rec)

\* collection.deleteOne({ userId, movieId }): the first match goes
DeleteOne(coll, userId, movieId) ==
  IF FindOne(coll, userId, movieId)
  THEN LET i == CHOOSE i \in 1..Len(coll) :
                  /\ coll[i].userId = userId /\ coll[i].movieId = movieId
                  /\ \A j \in 1..(i - 1) :
                       ~(coll[j].userId = userId /\ coll[j].movieId = movieId)
       IN SubSeq(coll, 1, i - 1) \o SubSeq(coll, i + 1, Len(coll))
  ELSE coll

RECURSIVE getListIds(_, _)
\* getListIds(db, collectionName, userId): the user's movie ids, as strings
getListIds(coll, userId) ==
  IF coll = <<>> THEN <<>>
  ELSE IF Head(coll).userId = userId
    THEN <<IdToString(Head(coll).movieId)>> \o getListIds(Tail(coll), userId)
  ELSE getListIds(Tail(coll), userId)

\* the identity the relation routes act for, looking at the other user
ActingUserOther(s) == IF session[s].id = 1 THEN 2 ELSE 1

\* the identity the relation routes act for: req.session.user.id
ActingUser(s) == session[s].id

InvalidMovieId == [message |-> "Invalid movie id"]

\* what a step of a relation route records: the collection, the movie id as
\* sent, the id of the session's user when the request came in, and whether
\* the store held the pair then
RelArg(k, mid, who, had) == [kind |-> k, mid |-> mid, who |-> who, had |-> had]

\* the records the two collections hold together
RelCount == Len(rel["likes"]) + Len(rel["watchlist"])

\* what a relation handler run from its first line to its answer does: the
\* answer and the collection it leaves
RelOutcome(status, out, coll) == [status |-> status, out |-> out, coll |-> coll]

\* GET /likes, GET /watchlist
listOutcome(s, k) ==
  IF ~requireAuth(s) THEN RelOutcome(401, Unauthorized, rel[k])
  ELSE RelOutcome(200, [items |-> getListIds(rel[k], ActingUser(s))], rel[k])

\* POST /likes, POST /watchlist with no other request in between
addOutcome(s, k, mid) ==
  LET userId == ActingUser(s)
      parsed == ObjectId(mid)
      after == IF FindOne(rel[k], userId, parsed) THEN rel[k]
               ELSE InsertOne(rel[k], [userId |-> userId, movieId |-> parsed])
  IN
  IF ~requireAuth(s) THEN RelOutcome(401, Unauthorized, rel[k])
  ELSE IF ~ObjectIdIsValid(mid) THEN RelOutcome(400, InvalidMovieId, rel[k])
  ELSE RelOutcome(200, [items |-> getListIds(after, userId)], after)

\* DELETE /likes/:movieId, DELETE /watchlist/:movieId with no other request in between
removeOutcome(s, k, mid) ==
  LET userId == ActingUser(s)
      parsed == ObjectId(mid)
      after == DeleteOne(rel[k], userId, parsed)
  IN
  IF ~requireAuth(s) THEN RelOutcome(401, Unauthorized, rel[k])
  ELSE IF ~ObjectIdIsValid(mid) THEN RelOutcome(400, InvalidMovieId, rel[k])
  ELSE RelOutcome(200, [items |-> getListIds(after, userId)], after)

\* the store holds a record of the session's user for the movie the request names
Had(s, k, mid) ==
  ObjectIdIsValid(mid)
  /\ \E i \in 1..Len(rel[k]) :
       rel[k][i].userId = session[s].id /\ rel[k][i].movieId = ObjectId(mid)

\* a relation handler's outcome becomes the next state; at most MaxRecs records
ApplyRel(op, s, k, mid, r) ==
  /\ Len(r.coll) > Len(rel[k]) => RelCount < MaxRecs
  /\ rel' = [rel EXCEPT ![k] = r.coll]
  /\ resp' = Respond(op, s, RelArg(k, mid, session[s].id, Had(s, k, mid)), r.status, r.out)
  /\ UNCHANGED <<users, session, movies, nextId, now, pc, loc>>

ListGet(s, k) == ApplyRel("list", s, k, BadId, listOutcome(s, k))

Add(s, k, mid) == ApplyRel("add", s, k, mid, addOutcome(s, k, mid))

Remove(s, k, mid) == ApplyRel("remove", s, k, mid, removeOutcome(s, k, mid))

\* what a request in flight keeps between its awaits
Locals(op, s, k, mid) ==
  [op |-> op, s |-> s, kind |-> k, mid |-> mid, who |-> session[s].id, had |-> Had(s, k, mid),
   userId |-> ActingUser(s), movieId |-> ObjectId(mid)]

ArgOf(l) == RelArg(l.kind, l.mid, l.who, l.had)

\* POST /likes, POST /watchlist: up to the answer of findOne
AddBegin(p, s, k, mid) ==
  /\ pc[p] = "idle"
  /\ IF ~requireAuth(s) THEN
       /\ resp' = Respond("add", s, RelArg(k, mid, session[s].id, FALSE), 401, Unauthorized)
       /\ UNCHANGED <<pc, loc>>
     ELSE IF ~ObjectIdIsValid(mid) THEN
       /\ resp' = Respond("add", s, RelArg(k, mid, session[s].id, FALSE), 400, InvalidMovieId)
       /\ UNCHANGED <<pc, loc>>
     ELSE
       LET existing == FindOne(rel[k], ActingUser(s), ObjectId(mid)) IN
       /\ loc' = [loc EXCEPT ![p] = Locals("add", s, k, mid)]
       /\ pc' = [pc EXCEPT ![p] = IF existing THEN "addList" ELSE "addInsert"]
       /\ resp' = Respond("add:findOne", s, ArgOf(Locals("add", s, k, mid)), 0, NoBody)
  /\ UNCHANGED <<users, session, movies, nextId, now, rel>>

\* ... nothing was found: insertOne
AddInsert(p) ==
  /\ pc[p] = "addInsert"
  /\ RelCount < MaxRecs
  /\ rel' = [rel EXCEPT ![loc[p].kind] =
               InsertOne(@, [userId |-> loc[p].userId, movieId |-> loc[p].movieId])]
  /\ pc' = [pc EXCEPT ![p] = "addList"]
  /\ resp' = Respond("add:insertOne", loc[p].s, ArgOf(loc[p]), 0, NoBody)
  /\ UNCHANGED <<users, session, movies, nextId, now, loc>>

\* ... getListIds and the answer
AddList(p) ==
  /\ pc[p] = "addList"
  /\ resp' = Respond("add", loc[p].s, ArgOf(loc[p]), 200,
                     [items |-> getListIds(rel[loc[p].kind], loc[p].userId)])
  /\ pc' = [pc EXCEPT ![p] = "idle"]
  /\ loc' = [loc EXCEPT ![p] = NoLoc]
  /\ UNCHANGED <<users, session, movies, nextId, now, rel>>

\* DELETE /likes/:movieId, DELETE /watchlist/:movieId: up to deleteOne
RemoveBegin(p, s, k, mid) ==
  /\ pc[p] = "idle"
  /\ IF ~requireAuth(s) THEN
       /\ resp' = Respond("remove", s, RelArg(k, mid, session[s].id, FALSE), 401, Unauthorized)
       /\ UNCHANGED <<pc, loc, rel>>
     ELSE IF ~ObjectIdIsValid(mid) THEN
       /\ resp' = Respond("remove", s, RelArg(k, mid, session[s].id, FALSE), 400, InvalidMovieId)
       /\ UNCHANGED <<pc, loc, rel>>
     ELSE
       /\ rel' = [rel EXCEPT ![k] = DeleteOne(@, ActingUser(s), ObjectId(mid))]
       /\ loc' = [loc EXCEPT ![p] = Locals("remove", s, k, mid)]
       /\ pc' = [pc EXCEPT ![p] = "removeList"]
       /\ resp' = Respond("remove:deleteOne", s, ArgOf(Locals("remove", s, k, mid)), 0, NoBody)
  /\ UNCHANGED <<users, session, movies, nextId, now>>

\* ... getListIds and the answer
RemoveList(p) ==
  /\ pc[p] = "removeList"
  /\ resp' = Respond("remove", loc[p].s, ArgOf(loc[p]), 200,
                     [items |-> getListIds(rel[loc[p].kind], loc[p].userId)])
  /\ pc' = [pc EXCEPT ![p] = "idle"]
  /\ loc' = [loc EXCEPT ![p] = NoLoc]
  /\ UNCHANGED <<users, session, movies, nextId, now, rel>>


\* ------------------------------------------------------------------ inputs
EmptyBody ==
  [title |-> Undef, year |-> Undef, genre |-> Undef, genres |-> Undef, rating |-> Undef,
   director |-> Undef, poster |-> Undef, posterUrl |-> Undef, description |-> Undef]

TitleA == Str(<<" ", "a">>)
TitleB == Str(<<"b">>)
Blank == Str(<<" ">>)
Empty == Str(<<>>)
G == Str(<<"g">>)
H == Str(<<"h", " ">>)
SevenGenres == Arr(<<G, G, G, G, G, G, G>>)

\* a complete payload
FullBody ==
  [EmptyBody EXCEPT !.title = TitleA, !.year = Num(2000), !.genres = Arr(<<G, H>>),
                    !.rating = Num(7), !.director = Str(<<"d">>), !.poster = Str(<<"p">>),
                    !.description = Str(<<"x">>)]

\* the payloads the requests of a behaviour carry
StepBodies ==
  { EmptyBody,
    FullBody,
    [EmptyBody EXCEPT !.title = TitleA, !.year = Num(2000)],
    [EmptyBody EXCEPT !.title = TitleA, !.year = Num(2000), !.genres = SevenGenres],
    [EmptyBody EXCEPT !.title = TitleB],
    [EmptyBody EXCEPT !.genre = H],
    [EmptyBody EXCEPT !.year = Num(1700)] }

\* the payloads the properties range over in every reachable state
MovieBodies ==
  StepBodies \cup
  { [EmptyBody EXCEPT !.title = TitleB, !.year = Num(1850), !.genre = H],
    [EmptyBody EXCEPT !.title = TitleA, !.year = Num(2000), !.genres = Arr(<<Blank>>)],
    [EmptyBody EXCEPT !.title = TitleA, !.year = Num(2000), !.rating = Num(11)],
    [EmptyBody EXCEPT !.title = TitleA, !.year = Half(2000), !.genre = G],
    [EmptyBody EXCEPT !.title = Blank],
    [EmptyBody EXCEPT !.title = TitleB, !.year = Num(1850)],
    [EmptyBody EXCEPT !.genres = Arr(<<>>)],
    [EmptyBody EXCEPT !.genres = SevenGenres],
    [EmptyBody EXCEPT !.rating = Str(<<"7", ".", "5">>)],
    [EmptyBody EXCEPT !.director = Empty],
    [EmptyBody EXCEPT !.poster = Empty],
    [EmptyBody EXCEPT !.posterUrl = Str(<<"q">>)],
    [EmptyBody EXCEPT !.description = Empty] }

\* the ids a path can carry: every id the store can have assigned, the first
\* one in upper case too, and a malformed one
PathIds == {Hex(i) : i \in 1..MaxMovies} \cup {HexUpper(1), BadId}

\* -------------------------------------------------------------- initial state
InitUsers == (1 :> SeedUser) @@ (2 :> BobUser)

Init ==
  /\ users = InitUsers
  /\ session = [s \in Sessions |-> NoUser]
  /\ movies = [i \in {} |-> EmptyBody]
  /\ nextId = 1
  /\ now = 0
  /\ rel = [k \in Kinds |-> <<>>]
  /\ pc = [p \in Slots |-> "idle"]
  /\ loc = [p \in Slots |-> NoLoc]
  /\ resp = Respond("-", "-", NoBody, 0, NoBody)

Credentials == {<<Str(AdminName), Str(AdminPass)>>, <<Str(BobName), Str(BobPass)>>,
                <<Str(BobName), Str(AdminPass)>>, <<Str(<<"z">>), Str(BobPass)>>,
                <<Str(BobName), Undef>>}

\* the session the requests of a behaviour come from; logging in as one user
\* and then as the other, it acts for both
Browser == {"s1"}

AuthNext ==
  \/ \E s \in Browser, c \in Credentials : Login(s, c[1], c[2])
  \/ \E s \in Browser : Logout(s)

MoviesNext ==
  \/ \E s \in Browser, b \in StepBodies, t \in now..MaxTime : Create(s, b, t)
  \/ \E s \in Browser, i \in PathIds, b \in StepBodies, t \in now..MaxTime : Update(s, i, b, t)
  \/ \E s \in Browser, i \in PathIds : Delete(s, i)

NextMovies == AuthNext \/ MoviesNext

\* the movies router behind the session middleware
SpecMovies == Init /\ [][NextMovies]_vars

\* the movie ids a relation request can carry
RelIds == {Hex(1), HexUpper(2), BadId}

\* ... and under interleaving, where every request in flight multiplies the states
RaceIds == {HexUpper(1), BadId}

RelNext ==
  \/ \E s \in Browser, k \in Kinds : ListGet(s, k)
  \/ \E p \in Slots, s \in Browser, k \in Kinds, m \in RaceIds : AddBegin(p, s, k, m)
  \/ \E p \in Slots : AddInsert(p)
  \/ \E p \in Slots : AddList(p)
  \/ \E p \in Slots, s \in Browser, k \in Kinds, m \in RaceIds : RemoveBegin(p, s, k, m)
  \/ \E p \in Slots : RemoveList(p)

RelSeqNext ==
  \/ \E s \in Browser, k \in Kinds : ListGet(s, k)
  \/ \E s \in Browser, k \in Kinds, m \in RelIds : Add(s, k, m)
  \/ \E s \in Browser, k \in Kinds, m \in RelIds : Remove(s, k, m)

NextRelSeq == AuthNext \/ RelSeqNext

\* the relation routes, one request at a time
SpecRelSeq == Init /\ [][NextRelSeq]_vars

NextRel == AuthNext \/ RelNext

\* the relation routes, requests interleaved at their awaits
SpecRel == Init /\ [][NextRel]_vars

\* the payloads and ids of the movie requests where every route is in play
LiteBodies == {FullBody, [EmptyBody EXCEPT !.title = TitleB]}
LiteIds == {Hex(1), BadId}

\* a session that carries no user sends every payload: it changes nothing
BodiesOf(s) == IF session[s] = NoUser THEN StepBodies ELSE LiteBodies

Next ==
  \/ AuthNext
  \/ \E s \in Sessions : \E b \in BodiesOf(s), t \in now..MaxTime : Create(s, b, t)
  \/ \E s \in Sessions : \E i \in LiteIds, b \in BodiesOf(s), t \in now..MaxTime : Update(s, i, b, t)
  \/ \E s \in Sessions, i \in LiteIds : Delete(s, i)
  \/ \E s \in Sessions, k \in Kinds : ListGet(s, k)
  \/ \E s \in Sessions, k \in Kinds, m \in RaceIds : Add(s, k, m)
  \/ \E s \in Sessions, k \in Kinds, m \in RaceIds : Remove(s, k, m)

\* every guarded route of the application, one request at a time
Spec == Init /\ [][Next]_vars

NextCtl ==
  \/ \E b \in MovieBodies, t \in now..MaxTime : CtlCreate(b, t)
  \/ \E i \in PathIds, b \in MovieBodies, t \in now..MaxTime : CtlUpdate(i, b, t)
  \/ \E i \in PathIds : CtlDelete(i)

\* the movies controller
SpecCtl == Init /\ [][NextCtl]_vars

\* ------------------------------------------------------------------ claims
MovieWrites == {"create", "update", "delete"}
RelOps == {"list", "add", "remove"}

\* C1: no mutating movie request of a session whose role is `user` succeeds
\* (the claim has it answered 403) and the movies collection is left unchanged.
C1_UserSessionForbidden ==
  [][(resp'.op \in MovieWrites /\ session[resp'.s].role = "user")
       => (resp'.status \notin {200, 201} /\ movies' = movies)]_vars

\* C2: a request to a route behind requireAuth from a session that carries no
\* user is answered 401 and changes none of movies, likes and watchlist.
C2_NoSessionUnauthorized ==
  [][(resp'.op \in MovieWrites \cup RelOps /\ session[resp'.s] = NoUser)
       => (resp'.status = 401 /\ movies' = movies /\ nextId' = nextId /\ rel' = rel)]_vars

\* C2 witness: a delete from a session with no user was answered 401 while
\* there were movies and relation records to lose.
C2_Witness ==
  /\ resp.op = "delete" /\ resp.status = 401
  /\ session[resp.s] = NoUser
  /\ DOMAIN movies # {}
  /\ RelCount > 0

\* the records of one user in a collection, in order
RecordsOf(coll, u) == SelectSeq(coll, LAMBDA rec : rec.userId = u)

\* how often a value occurs in a sequence
Occurrences(seq, x) == Cardinality({i \in 1..Len(seq) : seq[i] = x})

UserIds == DOMAIN InitUsers

\* C3: each of likes and watchlist holds at most one record per
\* (userId, movieId) pair, in every state and under every interleaving of
\* concurrent add and remove requests.
C3_OneRecordPerPair ==
  \A k \in Kinds : \A i, j \in 1..Len(rel[k]) : rel[k][i] = rel[k][j] => i = j

\* C4: with requests served one after another, a successful add answers a list
\* holding the movie exactly once; an add repeated right after the same add
\* answers the same list; a remove of a well-formed id is answered 200, and
\* when the movie was not a member the collection and the list are unchanged.
C4_AddRemoveIdempotent ==
  [][/\ (resp'.op = "add" /\ resp'.status = 200)
          => Occurrences(resp'.out.items, IdToString(ObjectId(resp'.arg.mid))) = 1
     /\ (resp'.op = "add" /\ resp'.status = 200 /\ resp'.arg.had)
          => /\ rel' = rel
             /\ resp'.out.items = getListIds(rel[resp'.arg.kind], resp'.arg.who)
     /\ (/\ resp.op = "add" /\ resp.status = 200
         /\ resp'.op = "add" /\ resp'.status = 200
         /\ resp'.arg.kind = resp.arg.kind /\ resp'.arg.who = resp.arg.who
         /\ ObjectId(resp'.arg.mid) = ObjectId(resp.arg.mid))
          => resp'.out.items = resp.out.items
     /\ (resp'.op = "remove" /\ resp'.arg.who # 0 /\ ObjectIdIsValid(resp'.arg.mid))
          => /\ resp'.status = 200
             /\ ~resp'.arg.had
                  => /\ rel' = rel
                     /\ resp'.out.items = getListIds(rel[resp'.arg.kind], resp'.arg.who)
    ]_vars

\* C4 witness: an add of a pair the store already held has been answered 200,
\* with another movie of the same user in the list.
C4_Witness ==
  /\ resp.op = "add" /\ resp.status = 200 /\ resp.arg.had
  /\ Len(resp.out.items) = 2

\* C5: a step of an add or remove changes only the records of the user whose
\* session the request came with, and only in the collection it addresses; the
\* list it answers holds only movies of that user's records in that collection.
C5_OwnRecordsOnly ==
  [][/\ \A k \in Kinds : \A u \in UserIds \cup {0} :
          RecordsOf(rel'[k], u) # RecordsOf(rel[k], u)
            => /\ resp'.op \in {"add:insertOne", "remove:deleteOne"}
               /\ resp'.arg.kind = k
               /\ resp'.arg.who = u
     /\ (resp'.op \in {"add", "remove", "list"} /\ resp'.status = 200)
          => \A n \in 1..Len(resp'.out.items) :
               \E i \in 1..Len(rel'[resp'.arg.kind]) :
                 /\ rel'[resp'.arg.kind][i].userId = resp'.arg.who
                 /\ IdToString(rel'[resp'.arg.kind][i].movieId) = resp'.out.items[n]
    ]_vars

\* C5 witness: an add made in one user's session is answered with that user's
\* movie while the same collection holds a record of another user and the other
\* collection is in use too.
C5_Witness ==
  /\ resp.op = "add" /\ resp.status = 200 /\ Len(resp.out.items) = 1
  /\ \E i \in 1..Len(rel[resp.arg.kind]) : rel[resp.arg.kind][i].userId # resp.arg.who
  /\ \E k \in Kinds : k # resp.arg.kind /\ rel[k] # <<>>

\* the sessions that carry a user
LoggedIn == {s \in Sessions : requireAuth(s)}

\* the fields a stored movie has besides its id and createdAt
MovieFields == {"title", "year", "genres", "genre", "rating", "director", "poster",
                "posterUrl", "description", "updatedAt"}

\* the fields of a payload that are present
Supplied(body) == {f \in DOMAIN body : body[f] # Undef}

\* the stored fields an update carrying this payload may change: the supplied
\* ones, updatedAt, genre with genres, poster with posterUrl
MayChange(body) ==
  Supplied(body) \cup {"updatedAt"}
    \cup (IF Supplied(body) \cap {"genre", "genres"} # {} THEN {"genre", "genres"} ELSE {})
    \cup (IF Supplied(body) \cap {"poster", "posterUrl"} # {} THEN {"poster", "posterUrl"} ELSE {})

\* the genres of a payload, each entry trimmed, the empty ones dropped, none cut off
GenresEntries(body) ==
  LET arr0 == IF body.genres.k = "arr" THEN body.genres.v ELSE <<>>
      arr1 == IF Len(arr0) = 0 /\ body.genre.k \notin {"undef", "null"}
              THEN <<body.genre>> ELSE arr0
  IN FilterTruthy([i \in 1..Len(arr1) |-> Str(Trim(JsString(arr1[i])))])

\* C6: every stored movie has between 1 and 6 genres, and its genre is the
\* first of them.
C6_GenresOneToSix ==
  \A i \in DOMAIN movies :
    /\ movies[i].genres.k = "arr"
    /\ Len(movies[i].genres.v) \in 1..GENRES_MAX
    /\ movies[i].genre = movies[i].genres.v[1]

\* the payloads that supply a valid subset of the fields
PartialBodies ==
  { [EmptyBody EXCEPT !.title = TitleB],
    [EmptyBody EXCEPT !.title = TitleB, !.year = Num(1999)] }

\* C7: the controller's update of an existing movie with a payload that
\* supplies only title, or only title and year, is answered 200 with the
\* movie as updated.
C7_PartialUpdateAccepted ==
  \A i \in DOMAIN movies : \A body \in PartialBodies :
    LET r == ctlUpdateOutcome(Hex(i), body, now) IN
    /\ r.status = 200
    /\ r.out.title = Str(Trim(body.title.v))

\* C8: a successful update leaves every field the payload does not supply at
\* its stored value (updatedAt aside, genre going with genres and poster with
\* posterUrl).
C8_UpdateKeepsOtherFields ==
  \A s \in LoggedIn : \A i \in DOMAIN movies : \A body \in MovieBodies :
    LET r == updateOutcome(s, Hex(i), body, now) IN
    r.status = 200 =>
      \A f \in MovieFields \ MayChange(body) : r.movies[i][f] = movies[i][f]

\* C9: an update whose payload supplies no field is answered 400 and leaves the
\* collection, updatedAt included, as it was.
C9_EmptyUpdateRejected ==
  \A s \in LoggedIn : \A i \in DOMAIN movies :
    LET r == updateOutcome(s, Hex(i), EmptyBody, now) IN
    r.status = 400 /\ r.movies = movies

\* C10: a create or update that supplies genre or genres is answered 400 and
\* writes nothing when, trimmed and with the empty entries dropped, the genres
\* are none or more than 6.
C10_GenresCountRejected ==
  \A s \in LoggedIn : \A body \in MovieBodies :
    (Supplied(body) \cap {"genre", "genres"} # {}
       /\ Len(GenresEntries(body)) \notin 1..GENRES_MAX)
      => /\ LET r == createOutcome(s, body, now) IN
              r.status = 400 /\ r.movies = movies
         /\ \A i \in DOMAIN movies :
              LET r == updateOutcome(s, Hex(i), body, now) IN
              r.status = 400 /\ r.movies = movies

\* a stored rating: null, or a number from RATING_MIN to RATING_MAX
RatingStored(r) ==
  r = Null \/ (r.k = "num" /\ Twice(r) >= 2 * RATING_MIN /\ Twice(r) <= 2 * RATING_MAX)

\* ratings that are provided and are no number from 0 to 10
BadRatings == {Num(11), Num(-1), Half(10), Str(<<"7", ".", "5", "x">>)}

\* complete payloads that carry such a rating
BadRatingBodies == {[FullBody EXCEPT !.rating = x] : x \in BadRatings}

\* complete payloads that carry no rating, or an empty one
NoRatingBodies == {[FullBody EXCEPT !.rating = x] : x \in {Undef, Null, Empty}}

\* answered 400, nothing written
Rejected(r) == r.status = 400 /\ r.movies = movies

\* answered 201, the movie returned and stored with rating null
CreatedUnrated(r) ==
  r.status = 201 /\ r.out.rating = Null /\ r.movies[nextId].rating = Null

\* C11: a create or update with a provided rating that is no number in [0,10]
\* is answered 400 and writes nothing; a create without a rating stores and
\* returns rating null; every stored rating is null or a number in [0,10].
\* Both the router's and the controller's handlers are held to it.
C11_RatingNullOrInRange ==
  /\ \A i \in DOMAIN movies : RatingStored(movies[i].rating)
  /\ \A body \in BadRatingBodies :
       /\ Rejected(ctlCreateOutcome(body, now))
       /\ \A id \in PathIds : Rejected(ctlUpdateOutcome(id, body, now))
       /\ \A s \in LoggedIn :
            /\ Rejected(createOutcome(s, body, now))
            /\ \A id \in PathIds : Rejected(updateOutcome(s, id, body, now))
  /\ \A body \in NoRatingBodies :
       /\ CreatedUnrated(ctlCreateOutcome(body, now))
       /\ \A s \in LoggedIn : CreatedUnrated(createOutcome(s, body, now))

\* C11 witness: a create without a rating has been answered 201 with rating
\* null while another stored movie has the rating 7.
C11_Witness ==
  /\ resp.op = "create" /\ resp.status = 201 /\ resp.out.rating = Null
  /\ movies[resp.out._id].rating = Null
  /\ \E i \in DOMAIN movies : movies[i].rating = Num(7)

\* an integer year from 1888 to the year after the current one
YearFrom1888(y) ==
  y.k = "num" /\ y.h = 0 /\ y.v >= YEAR_MIN_CTL /\ y.v <= CurrentYear + 1

\* C12: every movie the router's create or update writes, and every stored
\* movie, has an integer year in [1888, currentYear+1].
C12_YearFrom1888 ==
  /\ \A i \in DOMAIN movies : YearFrom1888(movies[i].year)
  /\ \A s \in LoggedIn : \A body \in MovieBodies :
       /\ LET r == createOutcome(s, body, now) IN
          r.status = 201 => YearFrom1888(r.out.year)
       /\ \A i \in DOMAIN movies :
            LET r == updateOutcome(s, Hex(i), body, now) IN
            r.status = 200 => YearFrom1888(r.out.year)

\* ------------------------------------------------- reading movies: helpers
\* A query string carries strings only: each parameter is Undef or a Str.
NoQuery ==
  [title |-> Undef, genre |-> Undef, year |-> Undef, sort |-> Undef, fields |-> Undef,
   page |-> Undef, limit |-> Undef, ids |-> Undef]

RECURSIVE SplitFrom(_, _, _)
SplitFrom(s, sep, cur) ==
  IF s = <<>> THEN <<cur>>
  ELSE IF Head(s) = sep THEN <<cur>> \o SplitFrom(Tail(s), sep, <<>>)
  ELSE SplitFrom(Tail(s), sep, Append(cur, Head(s)))

\* s.split(sep), on the characters of a string
Split(s, sep) == SplitFrom(s, sep, <<>>)

RECURSIVE DigitPrefix(_)
DigitPrefix(s) ==
  IF s # <<>> /\ IsDigit(Head(s)) THEN <<Head(s)>> \o DigitPrefix(Tail(s)) ELSE <<>>

\* parseInt(x, 10) of a string: white space, a sign, then the leading digits
ParseInt(x) ==
  LET t == TrimStart(x.v)
      neg == t # <<>> /\ Head(t) = "-"
      u == IF t # <<>> /\ Head(t) \in {"-", "+"} THEN Tail(t) ELSE t
      d == DigitPrefix(u)
  IN IF d = <<>> THEN NaN
     ELSE Num(IF neg THEN 0 - ParseNat(d, 0) ELSE ParseNat(d, 0))

\* Math.max(a, b) and Math.min(a, b): NaN as soon as an argument is NaN
MathMax(a, b) == IF a = NaN \/ b = NaN THEN NaN ELSE IF Twice(a) >= Twice(b) THEN a ELSE b
MathMin(a, b) == IF a = NaN \/ b = NaN THEN NaN ELSE IF Twice(a) <= Twice(b) THEN a ELSE b

\* the field names a query can spell that a movie document has
FieldSpelled ==
  { <<<<"t", "i", "t", "l", "e">>, "title">>, <<<<"y", "e", "a", "r">>, "year">>,
    <<<<"r", "a", "t", "i", "n", "g">>, "rating">>, <<<<"g", "e", "n", "r", "e">>, "genre">>,
    <<<<"_", "i", "d">>, "_id">> }

\* the document's field of that spelling, or "" when it has none
FieldNamed(chars) ==
  IF \E e \in FieldSpelled : e[1] = chars
  THEN (CHOOSE e \in FieldSpelled : e[1] = chars)[2] ELSE ""

\* $regex: title, $options: 'i', for a pattern of plain lower-case characters:
\* the title contains it
Contains(s, pat) ==
  \E i \in 0..(Len(s) - Len(pat)) : SubSeq(s, i + 1, i + Len(pat)) = pat

\* the order of the characters the model's strings are made of
Alphabet ==
  <<" ", ",", "-", ".", ":", "0", "1", "2", "3", "4", "5", "6", "7", "8", "9", "_",
    "a", "b", "c", "d", "e", "f", "g", "h", "i", "j", "k", "l", "m", "n", "o", "p", "q",
    "r", "s", "t", "u", "v", "w", "x", "y", "z">>

CharRank(c) == CHOOSE i \in 1..Len(Alphabet) : Alphabet[i] = c

RECURSIVE StrLeq(_, _)
\* string comparison of the store
StrLeq(a, b) ==
  IF a = <<>> THEN TRUE
  ELSE IF b = <<>> THEN FALSE
  ELSE IF Head(a) = Head(b) THEN StrLeq(Tail(a), Tail(b))
  ELSE CharRank(Head(a)) < CharRank(Head(b))

\* the value a document is sorted by: a missing field sorts as null
SortKey(doc, field) ==
  IF field = "" THEN Null
  ELSE IF field = "_id" THEN Num(doc._id)
  ELSE IF doc[field] = Undef THEN Null ELSE doc[field]

\* the store's order of types: null, numbers, strings
TypeRank(x) == CASE x.k = "null" -> 0 [] x.k = "num" -> 1 [] x.k = "str" -> 2 [] OTHER -> 3

\* a sorts before b, or equal to it
KeyLeq(a, b) ==
  \/ TypeRank(a) < TypeRank(b)
  \/ /\ TypeRank(a) = TypeRank(b)
     /\ CASE a.k = "num" -> Twice(a) <= Twice(b)
          [] a.k = "str" -> StrLeq(a.v, b.v)
          [] OTHER -> TRUE

\* the sequences that hold each element of S once
Perms(S) ==
  {f \in [1..Cardinality(S) -> S] : \A i, j \in 1..Cardinality(S) : f[i] = f[j] => i = j}

\* let sortSpec = ...: the field and the direction
sortSpecOf(sort) ==
  LET year1 == [field |-> "year", dir |-> 1]
      parts == Split(sort.v, ":")
  IN IF ~Truthy(sort) THEN year1
     ELSE IF sort.v \in {<<"y", "e", "a", "r">>, <<"y", "e", "a", "r", ":", "a", "s", "c">>}
       THEN year1
     ELSE IF sort.v = <<"y", "e", "a", "r", ":", "d", "e", "s", "c">>
       THEN [field |-> "year", dir |-> 0 - 1]
     ELSE IF parts[1] # <<>>
       THEN [field |-> FieldNamed(parts[1]),
             dir |-> IF Len(parts) > 1 /\ parts[2] = <<"d", "e", "s", "c">> THEN 0 - 1 ELSE 1]
     ELSE year1

\* .sort(sortSpec): the orders the store can return the documents of S in;
\* documents with equal keys come in any order
SortedOrders(S, spec) ==
  {f \in Perms(S) :
     \A i, j \in 1..Cardinality(S) :
       i < j => IF spec.dir = 1
                THEN KeyLeq(SortKey(f[i], spec.field), SortKey(f[j], spec.field))
                ELSE KeyLeq(SortKey(f[j], spec.field), SortKey(f[i], spec.field))}

\* const projection = {} ...: the fields asked for
projectionOf(fields) ==
  IF ~Truthy(fields) THEN {}
  ELSE LET parts == Split(fields.v, ",") IN
       {Trim(parts[i]) : i \in 1..Len(parts)} \ {<<>>}

\* a document under the projection: all of it when nothing is asked for,
\* else _id and the fields asked for that it has
Project(doc, proj) ==
  IF proj = {} THEN doc
  ELSE LET keep == {"_id"} \cup {f \in DOMAIN doc : \E c \in proj : FieldNamed(c) = f}
       IN [f \in keep |-> doc[f]]

\* the filter built from title, genre and year
MatchesFilter(doc, q, useYear, yearNum) ==
  /\ Truthy(q.title) => Contains(doc.title.v, q.title.v)
  /\ Truthy(q.genre) =>
       \/ doc.genre = q.genre
       \/ \E i \in 1..Len(doc.genres.v) : doc.genres.v[i] = q.genre
  /\ useYear => doc.year = yearNum

\* the stored movies that match
Found(q) ==
  {movies[i] : i \in {j \in DOMAIN movies :
                        MatchesFilter(movies[j], q, q.year # Undef, Number(q.year))}}

\* a year check that lets every year through
YearErrorNone(q) == ""

\* the answer to a bad year, or none
YearError(q) ==
  IF q.year = Undef THEN ""
  ELSE IF ~IsInteger(Number(q.year)) THEN "Year must be an integer"
  ELSE IF Number(q.year).v < YEAR_MIN_LIST \/ Number(q.year).v > CurrentYear
    THEN "Year out of range"
  ELSE ""

\* an answer to a read: status, body, whether the store was queried, and
\* whether the body is a bare array of documents
Answer(status, out, queried) ==
  [status |-> status, out |-> out, queried |-> queried, array |-> FALSE]

ArrayAnswer(out, queried) ==
  [status |-> 200, out |-> out, queried |-> queried, array |-> TRUE]

\* --------------------------------------------- reading movies: the router
\* GET /api/movies: the answers the store's order of equal keys allows
getAllAnswers(q) ==
  IF YearError(q) # "" THEN {Answer(400, [error |-> YearError(q)], FALSE)}
  ELSE {ArrayAnswer([i \in 1..Len(f) |-> Project(f[i], projectionOf(q.fields))], TRUE) :
          f \in SortedOrders(Found(q), sortSpecOf(q.sort))}

\* GET /api/movies/:id
getOneAnswer(id) ==
  IF ~ObjectIdIsValid(id) THEN Answer(400, InvalidId, FALSE)
  ELSE IF ObjectId(id) \notin DOMAIN movies THEN Answer(404, NotFound, TRUE)
  ELSE Answer(200, movies[ObjectId(id)], TRUE)

\* a read's answer goes out; nothing else changes
Reply(op, arg, a) ==
  /\ resp' = Respond(op, "-", arg, a.status, a.out)
  /\ UNCHANGED <<users, session, movies, nextId, now, rel, pc, loc>>

GetAll(q) == \E a \in getAllAnswers(q) : Reply("getAll", q, a)

GetOne(id) == Reply("getOne", [id |-> id], getOneAnswer(id))

\* ------------------------------------------ reading movies: the controller
\* the ids parameter: the tokens between its commas, each a string offered
\* as an ObjectId or a run of spaces
Spaces(n) == [ok |-> FALSE, n |-> n, uc |-> FALSE, blank |-> TRUE]
CommaList(tokens) == [k |-> "list", v |-> tokens]

\* a handler that never looks at the ids parameter
IdsGivenNever(ids) == FALSE

\* if (req.query.ids): the parameter is there and is not the empty string
IdsGiven(ids) == ids # Undef /\ ids # CommaList(<<Spaces(0)>>)

\* .map(trim).filter(Boolean).filter(ObjectId.isValid).map(new ObjectId)
idsOf(ids) ==
  LET tokens == [i \in 1..Len(ids.v) |->
                   IF "blank" \in DOMAIN ids.v[i] THEN BadId ELSE ids.v[i]]
      valid == SelectSeq(tokens, ObjectIdIsValid)
  IN [i \in 1..Len(valid) |-> ObjectId(valid[i])]

\* NaN in a JSON body is null
Json(n) == IF n = NaN THEN Null ELSE n

\* Math.ceil(total / limit)
CeilDiv(total, limit) ==
  IF limit = NaN THEN NaN ELSE Num((total + limit.v - 1) \div limit.v)

InternalError == [error |-> "Internal server error"]

\* the page of a sorted result: skip, then at most limit documents
PageOf(f, skip, limit) ==
  IF skip >= Len(f) THEN <<>>
  ELSE SubSeq(f, skip + 1, IF skip + limit < Len(f) THEN skip + limit ELSE Len(f))

\* listMovies: the answers the store allows. A skip or limit of NaN is the
\* store's to refuse (the handler answers 500) or to read as 0 (no skip, no limit).
listMoviesAnswers(q) ==
  LET ids == idsOf(q.ids)
      proj == projectionOf(q.fields)
      page == MathMax(Num(1), ParseInt(IF Truthy(q.page) THEN q.page ELSE Str(<<"1">>)))
      limit == MathMin(Num(50),
                       MathMax(Num(1), ParseInt(IF Truthy(q.limit) THEN q.limit
                                                ELSE Str(<<"1", "2">>))))
      total == Cardinality(Found(q))
      envelope(items) ==
        [items |-> [i \in 1..Len(items) |-> Project(items[i], proj)],
         page |-> Json(page), limit |-> Json(limit), total |-> Num(total),
         totalPages |-> Json(CeilDiv(total, limit))]
      orders == SortedOrders(Found(q), sortSpecOf(q.sort))
  IN
  IF IdsGiven(q.ids) THEN
    IF Len(ids) = 0 THEN {ArrayAnswer(<<>>, FALSE)}
    ELSE {ArrayAnswer(f, TRUE) :
            f \in Perms({movies[i] : i \in {ids[n] : n \in 1..Len(ids)} \cap DOMAIN movies})}
  ELSE IF YearError(q) # "" THEN {Answer(400, [error |-> YearError(q)], FALSE)}
  ELSE IF page = NaN \/ limit = NaN THEN
    {Answer(500, InternalError, TRUE)}
      \cup {Answer(200, envelope(f), TRUE) : f \in orders}
  ELSE {Answer(200, envelope(PageOf(f, (page.v - 1) * limit.v, limit.v)), TRUE) : f \in orders}

\* getMovie
getMovieAnswer(id) ==
  IF ~ObjectIdIsValid(id) THEN Answer(400, InvalidId, FALSE)
  ELSE IF ObjectId(id) \notin DOMAIN movies THEN Answer(404, NotFound, TRUE)
  ELSE Answer(200, movies[ObjectId(id)], TRUE)

ListMovies(q) == \E a \in listMoviesAnswers(q) : Reply("ctl:list", q, a)

GetMovie(id) == Reply("ctl:get", [id |-> id], getMovieAnswer(id))

\* ------------------------------------------------- reading movies: inputs
Chars2000 == <<"2", "0", "0", "0">>

\* the payloads the movies that are read were created from: two of one year,
\* one of another
ReadBodies ==
  { FullBody,
    [EmptyBody EXCEPT !.title = TitleB, !.year = Num(2000), !.genre = H],
    [EmptyBody EXCEPT !.title = TitleB, !.year = Num(1999), !.genre = G, !.rating = Num(9)] }

\* the queries the reads of a behaviour carry
StepQueries ==
  { NoQuery,
    [NoQuery EXCEPT !.year = Str(Chars2000)],
    [NoQuery EXCEPT !.year = Str(<<"1", "7", "0", "0">>)],
    [NoQuery EXCEPT !.title = Str(<<"b">>), !.sort = Str(<<"t", "i", "t", "l", "e", ":", "d", "e", "s", "c">>)],
    [NoQuery EXCEPT !.genre = Str(<<"h">>), !.fields = Str(<<"t", "i", "t", "l", "e", ",", " ", "y", "e", "a", "r">>)] }

ReadNext ==
  \/ \E s \in Browser, b \in ReadBodies, t \in now..MaxTime : Create(s, b, t)
  \/ \E s \in Browser, i \in PathIds : Delete(s, i)
  \/ \E q \in StepQueries : GetAll(q)
  \/ \E i \in PathIds : GetOne(i)

NextRead == AuthNext \/ ReadNext

\* the movies router with its public reads
SpecRead == Init /\ [][NextRead]_vars

\* year parameters with the year they name, or 0 when they name no integer
\* from 1800 to the current year
YearParams ==
  { <<Chars2000, 2000>>, <<<<"1", "9", "9", "9">>, 1999>>, <<<<"1", "8", "0", "0">>, 1800>>,
    <<<<"2", "0", "2", "6">>, CurrentYear>>,
    <<<<"1", "7", "0", "0">>, 0>>, <<<<"1", "7", "9", "9">>, 0>>, <<<<"2", "0", "2", "7">>, 0>>,
    <<<<"2", "0", "0", "0", ".", "5">>, 0>>, <<<<"2", "0", "x">>, 0>>, <<<<"-", "5">>, 0>>,
    <<<<>>, 0>> }

\* the other parameters a query with a year carries
YearQueryRest ==
  { NoQuery,
    [NoQuery EXCEPT !.title = Str(<<"b">>)],
    [NoQuery EXCEPT !.genre = Str(<<"g">>), !.sort = Str(<<"y", "e", "a", "r", ":", "d", "e", "s", "c">>)],
    [NoQuery EXCEPT !.fields = Str(<<"t", "i", "t", "l", "e">>)] }

\* C13: a list request (no ids parameter) whose year is present and names no
\* integer in [1800, currentYear] is answered 400 without a store query; when
\* the year is valid the answer is 200 and every movie returned is a stored
\* movie of exactly that year. Held of the router and of the controller.
C13_ListYearChecked ==
  \A yp \in YearParams : \A rest \in YearQueryRest :
    LET q == [rest EXCEPT !.year = Str(yp[1])] IN
    /\ \A a \in getAllAnswers(q) :
         IF yp[2] = 0 THEN a.status = 400 /\ ~a.queried
         ELSE /\ a.status = 200
              /\ \A n \in 1..Len(a.out) : movies[a.out[n]._id].year = Num(yp[2])
    /\ \A a \in listMoviesAnswers(q) :
         IF yp[2] = 0 THEN a.status = 400 /\ ~a.queried
         ELSE /\ a.status = 200
              /\ \A n \in 1..Len(a.out.items) : movies[a.out.items[n]._id].year = Num(yp[2])

\* C13 witness: a list request for the year 2000 has been answered with the
\* movies of that year while a movie of another year is stored.
C13_Witness ==
  /\ resp.op = "getAll" /\ resp.arg.year = Str(Chars2000) /\ resp.status = 200
  /\ Len(resp.out) >= 1
  /\ \E i \in DOMAIN movies : movies[i].year # Num(2000)

\* the payloads the controller's requests of a behaviour carry
CtlReadBodies ==
  { FullBody,
    [EmptyBody EXCEPT !.title = TitleB, !.year = Num(2000), !.genre = H],
    [EmptyBody EXCEPT !.title = TitleB, !.year = Num(1999), !.genre = G, !.rating = Num(9)],
    [EmptyBody EXCEPT !.title = TitleB] }

\* the queries the controller's reads of a behaviour carry
CtlStepQueries ==
  { NoQuery,
    [NoQuery EXCEPT !.limit = Str(<<"1">>), !.page = Str(<<"2">>)],
    [NoQuery EXCEPT !.limit = Str(<<"1", "0", "0">>), !.page = Str(<<"0">>)],
    [NoQuery EXCEPT !.page = Str(<<"a", "b", "c">>)],
    [NoQuery EXCEPT !.year = Str(<<"1", "7", "0", "0">>)],
    [NoQuery EXCEPT !.ids = CommaList(<<Hex(1), BadId, Spaces(1), HexUpper(2)>>),
                    !.year = Str(<<"1", "7", "0", "0">>), !.title = Str(<<"z">>)],
    [NoQuery EXCEPT !.ids = CommaList(<<BadId>>)] }

CtlReadNext ==
  \/ \E b \in CtlReadBodies, t \in now..MaxTime : CtlCreate(b, t)
  \/ \E i \in PathIds, b \in CtlReadBodies, t \in now..MaxTime : CtlUpdate(i, b, t)
  \/ \E i \in PathIds : CtlDelete(i)
  \/ \E q \in CtlStepQueries : ListMovies(q)
  \/ \E i \in PathIds : GetMovie(i)

\* the movies controller, reads and writes
SpecCtlRead == Init /\ [][CtlReadNext]_vars

\* page parameters with the page they stand for
PageParams ==
  { <<Undef, 1>>, <<Str(<<>>), 1>>, <<Str(<<"0">>), 1>>, <<Str(<<"-", "3">>), 1>>,
    <<Str(<<"1">>), 1>>, <<Str(<<"2">>), 2>>, <<Str(<<"2", ".", "5">>), 2>>,
    <<Str(<<"a", "b", "c">>), 1>> }

\* limit parameters with the limit they stand for
LimitParams ==
  { <<Undef, 12>>, <<Str(<<>>), 12>>, <<Str(<<"0">>), 1>>, <<Str(<<"-", "1">>), 1>>,
    <<Str(<<"1">>), 1>>, <<Str(<<"5", "0">>), 50>>, <<Str(<<"1", "0", "0">>), 50>>,
    <<Str(<<"x">>), 12>> }

\* the envelope of a successful list answer is well formed for the page and
\* the limit asked for
EnvelopeFor(out, page, limit) ==
  /\ out.page = Num(page) /\ page >= 1
  /\ out.limit = Num(limit) /\ limit \in 1..50
  /\ Len(out.items) <= limit
  /\ out.totalPages = Num((out.total.v + limit - 1) \div limit)

\* C14: whatever the page and limit parameters are, a successful list answer
\* carries an integer page >= 1, an integer limit in [1,50], at most limit
\* items and totalPages = ceil(total / limit).
C14_PageLimitClamped ==
  \A pp \in PageParams : \A lp \in LimitParams :
    \A a \in listMoviesAnswers([NoQuery EXCEPT !.page = pp[1], !.limit = lp[1]]) :
      a.status = 200 => EnvelopeFor(a.out, pp[2], lp[2])

\* tokens of an ids parameter with the identity they name, or 0 when they are
\* malformed; 3 is well formed and never stored
IdTokens ==
  { <<Hex(1), 1>>, <<HexUpper(2), 2>>, <<Hex(MaxMovies + 1), MaxMovies + 1>>,
    <<BadId, 0>>, <<Spaces(1), 0>> }

\* ids parameters of one and of two tokens, with the identities they name
IdsParams ==
  {<<CommaList(<<t[1]>>), {t[2]}>> : t \in IdTokens}
    \cup {<<CommaList(<<t[1], u[1]>>), {t[2], u[2]}>> : t \in IdTokens, u \in IdTokens}

\* the other parameters a query with ids carries
IdsQueryRest ==
  { NoQuery,
    [NoQuery EXCEPT !.title = Str(<<"z">>), !.genre = Str(<<"z">>),
                    !.year = Str(<<"1", "7", "0", "0">>)] }

DeletedCountOne(id) == 1

\* result.deletedCount of deleteOne({ _id })
DeletedCount(id) == IF ObjectId(id) \in DOMAIN movies THEN 1 ELSE 0

DeleteArg(id, n) == [id |-> id, deletedCount |-> n]

\* deleteMovie: up to the answer of deleteOne
CtlDeleteBegin(p, id) ==
  /\ pc[p] = "idle"
  /\ IF ~ObjectIdIsValid(id) THEN
       /\ resp' = Respond("ctl:delete", "-", DeleteArg(id, 0), 400, InvalidId)
       /\ UNCHANGED <<pc, loc, movies>>
     ELSE
       /\ movies' = [i \in DOMAIN movies \ {ObjectId(id)} |-> movies[i]]
       /\ loc' = [loc EXCEPT ![p] = [op |-> "ctl:delete", id |-> id,
                                     deletedCount |-> DeletedCount(id)]]
       /\ pc' = [pc EXCEPT ![p] = "deleteAnswer"]
       /\ resp' = Respond("ctl:delete:deleteOne", "-", DeleteArg(id, DeletedCount(id)),
                          0, NoBody)
  /\ UNCHANGED <<users, session, nextId, now, rel>>

\* ... the answer
CtlDeleteAnswer(p) ==
  /\ pc[p] = "deleteAnswer"
  /\ resp' = IF loc[p].deletedCount = 0
             THEN Respond("ctl:delete", "-", DeleteArg(loc[p].id, 0), 404, NotFound)
             ELSE Respond("ctl:delete", "-", DeleteArg(loc[p].id, loc[p].deletedCount), 200,
                          [message |-> "Movie deleted successfully"])
  /\ pc' = [pc EXCEPT ![p] = "idle"]
  /\ loc' = [loc EXCEPT ![p] = NoLoc]
  /\ UNCHANGED <<users, session, movies, nextId, now, rel>>

\* the payloads of the requests that run beside the deletes
RaceBodies == {FullBody, [EmptyBody EXCEPT !.title = TitleB]}

CtlRaceNext ==
  \/ \E b \in RaceBodies, t \in now..MaxTime : CtlCreate(b, t)
  \/ \E i \in PathIds, b \in RaceBodies, t \in now..MaxTime : CtlUpdate(i, b, t)
  \/ \E p \in Slots, i \in PathIds : CtlDeleteBegin(p, i)
  \/ \E p \in Slots : CtlDeleteAnswer(p)
  \/ \E i \in PathIds : GetMovie(i)

\* the movies controller, deletes interleaved at their await
SpecCtlRace == Init /\ [][CtlRaceNext]_vars

\* the identities that were stored and have been deleted
Deleted == (1..(nextId - 1)) \ DOMAIN movies

C17_CreatedOnceUpdatedStamped ==
  [][/\ \A i \in DOMAIN movies : movies[i]._id = i
     /\ \A i \in DOMAIN movies \cap DOMAIN movies' :
          /\ movies'[i]._id = movies[i]._id
          /\ movies'[i].createdAt = movies[i].createdAt
          /\ movies'[i].updatedAt # movies[i].updatedAt
               => resp'.op = "ctl:update" /\ resp'.status = 200
     /\ \A i \in DOMAIN movies' \ DOMAIN movies :
          /\ resp'.op = "ctl:create" /\ resp'.status = 201 /\ i = nextId
          /\ movies'[i].createdAt = Date(now')
          /\ movies'[i].updatedAt = Undef
     /\ (resp'.op = "ctl:update" /\ resp'.status = 200) =>
          /\ resp'.out.updatedAt = Date(now')
          /\ resp'.out._id \in DOMAIN movies
          /\ movies'[resp'.out._id] = resp'.out
     /\ (resp'.op = "ctl:update" /\ resp'.status # 200) =>
          resp'.status \in {400, 404} /\ movies' = movies
    ]_vars

\* C17 witness: a movie created at time 0 has been updated at time 1 and
\* carries both stamps, beside a movie that was never updated.
C17_Witness ==
  /\ resp.op = "ctl:update" /\ resp.status = 200
  /\ resp.out.createdAt = Date(0) /\ resp.out.updatedAt = Date(1)
  /\ movies[resp.out._id] = resp.out
  /\ \E i \in DOMAIN movies : movies[i].updatedAt = Undef

\* --------------------------------------------- auth router: register, me
InvalidCredentials == [message |-> "Invalid credentials"]

\* a registration that tells a taken username apart
RegisterTakenConflict == [status |-> 409, out |-> [message |-> "Username taken"]]

\* what a registration of a taken username is answered
RegisterTaken == [status |-> 400, out |-> InvalidCredentials]

\* POST /auth/register, findOne and insertOne with no other request in between
Register(s, username, password) ==
  LET bad == ~Truthy(username) \/ ~Truthy(password)
             \/ TypeOf(username) # "string" \/ TypeOf(password) # "string"
      u == Trim(username.v)
      req == [username |-> username, password |-> password]
      id == Cardinality(DOMAIN users) + 1
  IN
  /\ IF bad THEN
       /\ resp' = Respond("register", s, req, 400, InvalidCredentials)
       /\ UNCHANGED <<session, users>>
     ELSE IF u = <<>> \/ Len(u) < REG_USER_MIN \/ password.v = <<>>
             \/ Len(password.v) < REG_PASS_MIN THEN
       /\ resp' = Respond("register", s, req, 400, InvalidCredentials)
       /\ UNCHANGED <<session, users>>
     ELSE IF UsersNamed(u) # {} THEN
       /\ resp' = Respond("register", s, req, RegisterTaken.status, RegisterTaken.out)
       /\ UNCHANGED <<session, users>>
     ELSE
       /\ Cardinality(DOMAIN users) < MaxUsers
       /\ users' = users @@ (id :> [username |-> u, passwordHash |-> BcryptHash(password.v),
                                    role |-> "user"])
       /\ session' = [session EXCEPT ![s] = [id |-> id, username |-> u, role |-> "user"]]
       /\ resp' = Respond("register", s, req, 201, [message |-> "ok"])
  /\ UNCHANGED <<movies, nextId, now, rel, pc, loc>>

\* GET /auth/me
meAnswer(s) ==
  IF session[s] # NoUser THEN Answer(200, [user |-> session[s]], FALSE)
  ELSE Answer(401, [message |-> "Not authenticated"], FALSE)

Me(s) ==
  /\ resp' = Respond("me", s, NoBody, meAnswer(s).status, meAnswer(s).out)
  /\ UNCHANGED <<users, session, movies, nextId, now, rel, pc, loc>>

CarlName == <<"c", "a", "r", "l">>
DaveName == <<" ", "d", "a", "v", "e">>

\* the credentials the logins of the auth behaviours carry
AuthCredentials ==
  Credentials \cup {<<Str(CarlName), Str(BobPass)>>, <<Str(CarlName), Str(AdminPass)>>,
                    <<Blank, Str(BobPass)>>}

\* the credentials the registrations carry
RegCredentials ==
  { <<Str(CarlName), Str(BobPass)>>, <<Str(DaveName), Str(AdminPass)>>,
    <<Str(BobName), Str(BobPass)>>, <<Str(<<"c", "y", " ">>), Str(BobPass)>>,
    <<Str(CarlName), Str(<<"s", "h", "o", "r", "t">>)>>, <<Undef, Str(BobPass)>>,
    <<Str(CarlName), Num(123456)>> }

AuthAllNext ==
  \/ \E s \in Sessions, c \in AuthCredentials : Login(s, c[1], c[2])
  \/ \E s \in Sessions, c \in RegCredentials : Register(s, c[1], c[2])
  \/ \E s \in Sessions : Logout(s)
  \/ \E s \in Sessions : Me(s)
  \/ \E s \in Sessions, i \in LiteIds : Delete(s, i)
  \/ \E s \in Sessions, k \in Kinds : ListGet(s, k)

\* the auth router, with two guarded routes behind it
SpecAuth == Init /\ [][AuthAllNext]_vars

\* every route behind requireAuth, and GET /auth/me, turns the session away
AllAnswer401(s) ==
  /\ meAnswer(s).status = 401
  /\ createOutcome(s, FullBody, now).status = 401
  /\ \A i \in LiteIds :
       /\ updateOutcome(s, i, FullBody, now).status = 401
       /\ deleteOutcome(s, i).status = 401
  /\ \A k \in Kinds :
       /\ listOutcome(s, k).status = 401
       /\ \A m \in RaceIds : addOutcome(s, k, m).status = 401
                             /\ removeOutcome(s, k, m).status = 401

\* C18: a session is anonymous or carries a user of role user or admin; its
\* identity changes only by a successful login or registration or by a
\* logout; a failed login or registration changes nothing; a registration
\* attaches the new user with role user; a login attaches the stored user,
\* as admin only when the stored role is admin; a logout leaves the session
\* anonymous, and an anonymous session is answered 401 by every guarded route
\* and by GET /auth/me.
C18_SessionStateMachine ==
  [][/\ \A s \in Sessions :
          /\ session[s] = NoUser \/ session[s].role \in {"user", "admin"}
          /\ session[s] = NoUser => AllAnswer401(s)
          /\ session[s] # NoUser => meAnswer(s).status = 200
          /\ session'[s] # session[s] =>
               /\ resp'.s = s
               /\ \/ resp'.op = "login" /\ resp'.status = 200
                  \/ resp'.op = "register" /\ resp'.status = 201
                  \/ resp'.op = "logout"
     /\ (resp'.op = "login" /\ resp'.status # 200) => session' = session /\ users' = users
     /\ (resp'.op = "register" /\ resp'.status # 201) => session' = session /\ users' = users
     /\ (resp'.op = "register" /\ resp'.status = 201) =>
          /\ session'[resp'.s].role = "user"
          /\ session'[resp'.s].id \in DOMAIN users' \ DOMAIN users
          /\ users'[session'[resp'.s].id].role = "user"
          /\ users'[session'[resp'.s].id].username = session'[resp'.s].username
     /\ (resp'.op = "login" /\ resp'.status = 200) =>
          /\ session'[resp'.s].id \in DOMAIN users
          /\ users[session'[resp'.s].id].username = session'[resp'.s].username
          /\ session'[resp'.s].role =
               (IF users[session'[resp'.s].id].role = "admin" THEN "admin" ELSE "user")
     /\ resp'.op = "logout" => session'[resp'.s] = NoUser /\ resp'.status = 200
    ]_vars

\* C18 witness: a session that registered a user and then logged out is
\* anonymous again while the other session carries the admin.
C18_Witness ==
  /\ resp.op = "logout" /\ session[resp.s] = NoUser
  /\ Cardinality(DOMAIN users) > Cardinality(DOMAIN InitUsers)
  /\ \E s \in Sessions : session[s] # NoUser /\ session[s].role = "admin"

\* a login that names no stored user, or a stored user and another password
LoginRefused(username, password) ==
  /\ TypeOf(username) = "string" /\ TypeOf(password) = "string"
  /\ username.v # <<>> /\ password.v # <<>>
  /\ \/ \A i \in DOMAIN users : users[i].username # Trim(username.v)
     \/ \E i \in DOMAIN users : /\ users[i].username = Trim(username.v)
                                /\ users[i].passwordHash # BcryptHash(password.v)

\* C19: a login with non-empty string credentials that names an unknown user,
\* or a known user with a wrong password, is answered 401 Invalid credentials
\* in both cases and leaves the session as it was; every rejected
\* registration, that of a taken username included, is answered 400 Invalid
\* credentials and changes nothing.
C19_UniformRefusal ==
  [][/\ (resp'.op = "login" /\ LoginRefused(resp'.arg.username, resp'.arg.password)) =>
          /\ resp'.status = 401 /\ resp'.out = [message |-> "Invalid credentials"]
          /\ session' = session
     /\ (resp'.op = "register" /\ resp'.status # 201) =>
          /\ resp'.status = 400 /\ resp'.out = [message |-> "Invalid credentials"]
          /\ session' = session /\ users' = users
    ]_vars

\* C19 witness: a registration of a taken username has been refused in a
\* session that carries a user, after a user was registered.
C19_Witness ==
  /\ resp.op = "register" /\ resp.status = 400
  /\ resp.arg.username = Str(BobName) /\ resp.arg.password = Str(BobPass)
  /\ session[resp.s] # NoUser
  /\ Cardinality(DOMAIN users) > Cardinality(DOMAIN InitUsers)

\* the free-text fields an update may clear
ClearableFields == {"director", "poster", "posterUrl", "description"}

\* the payloads that supply the empty string for one free-text field, alone
\* or beside a new title
ClearBodies(f) ==
  {[EmptyBody EXCEPT ![f] = Empty], [EmptyBody EXCEPT !.title = TitleB, ![f] = Empty]}

\* C20: after an update of a stored movie that supplies the empty string for
\* director, poster, posterUrl or description the stored field is null, and
\* poster and posterUrl hold the same value.
C20_EmptyStringClears ==
  \A s \in LoggedIn : \A i \in DOMAIN movies :
    \A f \in ClearableFields : \A body \in ClearBodies(f) :
      LET r == updateOutcome(s, Hex(i), body, now) IN
      /\ r.movies[i][f] = Null
      /\ r.movies[i].poster = r.movies[i].posterUrl

\* the documents in which two states of the collection differ
ChangedIds(before, after) ==
  {i \in DOMAIN before \cup DOMAIN after :
     i \notin DOMAIN before \/ i \notin DOMAIN after \/ before[i] # after[i]}

\* a write handler's outcome: a 400 was given before any store operation and
\* leaves the collection alone, and no request issues more than one store
\* operation or touches more than one document
RejectedBeforeStore(r) ==
  /\ r.status = 400 => r.ops = <<>> /\ r.movies = movies /\ r.nextId = nextId
  /\ Len(r.ops) <= 1
  /\ Cardinality(ChangedIds(movies, r.movies)) <= 1
  /\ r.ops = <<>> => r.movies = movies

\* C21: a movie get, create, update or delete that is answered 400 for a
\* malformed id or an invalid payload has issued no store operation and leaves
\* the movies collection unchanged, and a mutating request issues at most one
\* store write, on one document.
C21_RejectedBeforeStore ==
  /\ \A id \in PathIds :
       /\ getOneAnswer(id).status = 400 => ~getOneAnswer(id).queried
       /\ getMovieAnswer(id).status = 400 => ~getMovieAnswer(id).queried
       /\ ~ObjectIdIsValid(id) => getOneAnswer(id).status = 400
                                  /\ getMovieAnswer(id).status = 400
       /\ RejectedBeforeStore(ctlDeleteOutcome(id))
       /\ \A s \in Sessions : RejectedBeforeStore(deleteOutcome(s, id))
       /\ \A body \in MovieBodies :
            /\ RejectedBeforeStore(ctlUpdateOutcome(id, body, now))
            /\ \A s \in Sessions : RejectedBeforeStore(updateOutcome(s, id, body, now))
  /\ \A body \in MovieBodies :
       /\ RejectedBeforeStore(ctlCreateOutcome(body, now))
       /\ \A s \in Sessions : RejectedBeforeStore(createOutcome(s, body, now))

\* C21 witness: with a movie stored, a delete by the admin and a malformed id
\* has been answered 400 and the movie is still there.
C21_Witness ==
  /\ resp.op = "delete" /\ resp.status = 400 /\ resp.out = InvalidId
  /\ session[resp.s] # NoUser
  /\ movies # <<>>

\* ------------------------------- registrations and the seed script in flight
\* the locals a registration or a seed run holds across its awaits
RegLocals(op, s, u, hash, role) ==
  [op |-> op, s |-> s, username |-> u, passwordHash |-> hash, role |-> role]

\* insertOne into users: the store assigns the next id
InsertUser(l) ==
  users @@ (Cardinality(DOMAIN users) + 1 :>
              [username |-> l.username, passwordHash |-> l.passwordHash, role |-> l.role])

\* POST /auth/register: up to the answer of findOne
RegisterBegin(p, s, username, password) ==
  LET bad == ~Truthy(username) \/ ~Truthy(password)
             \/ TypeOf(username) # "string" \/ TypeOf(password) # "string"
      u == Trim(username.v)
      req == [username |-> username, password |-> password]
  IN
  /\ pc[p] = "idle"
  /\ IF bad THEN
       /\ resp' = Respond("register", s, req, 400, InvalidCredentials)
       /\ UNCHANGED <<pc, loc>>
     ELSE IF u = <<>> \/ Len(u) < REG_USER_MIN \/ password.v = <<>>
             \/ Len(password.v) < REG_PASS_MIN THEN
       /\ resp' = Respond("register", s, req, 400, InvalidCredentials)
       /\ UNCHANGED <<pc, loc>>
     ELSE IF UsersNamed(u) # {} THEN
       /\ resp' = Respond("register", s, req, RegisterTaken.status, RegisterTaken.out)
       /\ UNCHANGED <<pc, loc>>
     ELSE
       /\ loc' = [loc EXCEPT ![p] = RegLocals("register", s, u, BcryptHash(password.v), "user")]
       /\ pc' = [pc EXCEPT ![p] = "registerInsert"]
       /\ resp' = Respond("register:findOne", s, req, 0, NoBody)
  /\ UNCHANGED <<users, session, movies, nextId, now, rel>>

\* ... no user was found: bcrypt.hash, insertOne, the session, 201
RegisterInsert(p) ==
  /\ pc[p] = "registerInsert"
  /\ Cardinality(DOMAIN users) < MaxUsers
  /\ users' = InsertUser(loc[p])
  /\ session' = [session EXCEPT ![loc[p].s] =
                   [id |-> Cardinality(DOMAIN users) + 1, username |-> loc[p].username,
                    role |-> "user"]]
  /\ resp' = Respond("register", loc[p].s, [username |-> Str(loc[p].username)], 201,
                     [message |-> "ok"])
  /\ pc' = [pc EXCEPT ![p] = "idle"]
  /\ loc' = [loc EXCEPT ![p] = NoLoc]
  /\ UNCHANGED <<movies, nextId, now, rel>>

\* scripts/seed-user.js: up to the answer of findOne
SeedBegin(p) ==
  /\ pc[p] = "idle"
  /\ IF UsersNamed(SeedUser.username) # {} THEN
       /\ resp' = Respond("seed", "-", [username |-> Str(SeedUser.username)], 0,
                          [message |-> "User already exists"])
       /\ UNCHANGED <<pc, loc>>
     ELSE
       /\ loc' = [loc EXCEPT ![p] = RegLocals("seed", "-", SeedUser.username,
                                              SeedUser.passwordHash, SeedUser.role)]
       /\ pc' = [pc EXCEPT ![p] = "seedInsert"]
       /\ resp' = Respond("seed:findOne", "-", [username |-> Str(SeedUser.username)], 0, NoBody)
  /\ UNCHANGED <<users, session, movies, nextId, now, rel>>

\* ... no user was found: bcrypt.hash, insertOne
SeedInsert(p) ==
  /\ pc[p] = "seedInsert"
  /\ Cardinality(DOMAIN users) < MaxUsers
  /\ users' = InsertUser(loc[p])
  /\ resp' = Respond("seed", "-", [username |-> Str(loc[p].username)], 0,
                     [message |-> "User created"])
  /\ pc' = [pc EXCEPT ![p] = "idle"]
  /\ loc' = [loc EXCEPT ![p] = NoLoc]
  /\ UNCHANGED <<session, movies, nextId, now, rel>>

\* the credentials of the registrations in flight
RaceCredentials ==
  { <<Str(CarlName), Str(BobPass)>>, <<Str(AdminName), Str(AdminPass)>>,
    <<Str(<<"c", "y", " ">>), Str(BobPass)>> }

\* a store that holds no user yet: the seed script has not run
InitNoUsers ==
  /\ users = [i \in {} |-> SeedUser]
  /\ session = [s \in Sessions |-> NoUser]
  /\ movies = [i \in {} |-> EmptyBody]
  /\ nextId = 1
  /\ now = 0
  /\ rel = [k \in Kinds |-> <<>>]
  /\ pc = [p \in Slots |-> "idle"]
  /\ loc = [p \in Slots |-> NoLoc]
  /\ resp = Respond("-", "-", NoBody, 0, NoBody)

RegRaceNext ==
  \/ \E p \in Slots, s \in Sessions, c \in RaceCredentials : RegisterBegin(p, s, c[1], c[2])
  \/ \E p \in Slots : RegisterInsert(p)
  \/ \E p \in Slots : SeedBegin(p)
  \/ \E p \in Slots : SeedInsert(p)
  \/ \E s \in Sessions, c \in RaceCredentials : Login(s, c[1], c[2])
  \/ \E s \in Sessions : Logout(s)

\* registrations, seed runs and logins, interleaved at their awaits
SpecRegRace == InitNoUsers /\ [][RegRaceNext]_vars

\* C22: the users collection holds at most one user per username.
C22_OneUserPerUsername ==
  \A i, j \in DOMAIN users : users[i].username = users[j].username => i = j

====
